---- MODULE Spec2Model ----
(***************************************************************************)
(* A model of src/src/index.ts: the Worker's fetch handler (the Front      *)
(* Door), the RAGAgent class (shouldUseRAG, processWithRAG,                *)
(* processGeneral) and the MyAgent Durable Object (history, save, stats).  *)
(*                                                                         *)
(* Strings that the code inspects (paths, questions, completion texts,    *)
(* match contents) are sequences of one-character strings, so that        *)
(* toLowerCase, includes, startsWith, substring, join and length are      *)
(* computed.  Strings the code only passes along are TLA+ strings.        *)
(* Similarity scores are integers in hundredths (0.7 is 70).              *)
(***************************************************************************)
EXTENDS Integers, Sequences, FiniteSets, TLC

VARIABLES
    req,          \* per execution context: the inbound Request
    pc,           \* per execution context: position in the Worker's fetch
    local,        \* per execution context: shouldUseRAG, matches, context, result
    resp,         \* per execution context: the Response returned to the caller
    trace,        \* per execution context: calls made so far (observation only)
    savePc,       \* per execution context: position of the Durable Object's /save
    saveLocal,    \* per execution context: /save's record, history and Response
    history,      \* Durable Object storage, key "chat_history"
    now,          \* the clock read by new Date()
    vectorCount   \* vectors upserted into the Vector Index so far

vars == << req, pc, local, resp, trace, savePc, saveLocal, history, now,
           vectorCount >>

\* ------------------------------------------------------------------ bounds

\* The execution contexts: each handles one request, and they run
\* concurrently.
Slots == {"w1", "w2"}
\* Documents of one /insert request.
MaxDocs == 2
\* The largest topK of a /chat request.
MaxTopK == 3

\* ------------------------------------------------------- program constants

HistoryCap == 100
ScoreThreshold == 70
PreviewLen == 200
HeuristicLen == 20
DefaultTopK == 3

\* ---------------------------------------------------------------- strings

UpperChars == <<"A","B","C","D","E","F","G","H","I","J","K","L","M","N","O","P","Q","R","S","T","U","V","W","X","Y","Z","Á","É","Í","Ó","Ú","Ñ">>
LowerChars == <<"a","b","c","d","e","f","g","h","i","j","k","l","m","n","o","p","q","r","s","t","u","v","w","x","y","z","á","é","í","ó","ú","ñ">>

\* String.prototype.toLowerCase, one character.
LowerChar(c) ==
    IF \E i \in 1..Len(UpperChars) : UpperChars[i] = c
    THEN LowerChars[CHOOSE i \in 1..Len(UpperChars) : UpperChars[i] = c]
    ELSE c

\* String.prototype.toLowerCase.
ToLowerCase(s) == [i \in 1..Len(s) |-> LowerChar(s[i])]

\* String.prototype.includes.
Includes(s, k) ==
    \E i \in 0..(Len(s) - Len(k)) : SubSeq(s, i + 1, i + Len(k)) = k

\* String.prototype.startsWith.
StartsWith(s, p) == Len(s) >= Len(p) /\ SubSeq(s, 1, Len(p)) = p

\* String.prototype.substring(0, n).
Substring0(s, n) == SubSeq(s, 1, IF n < Len(s) THEN n ELSE Len(s))

Ellipsis == <<".", ".", ".">>

RECURSIVE Join(_, _)
\* Array.prototype.join.
Join(parts, sep) ==
    IF Len(parts) = 0 THEN <<>>
    ELSE IF Len(parts) = 1 THEN parts[1]
    ELSE parts[1] \o sep \o Join(Tail(parts), sep)

\* ----------------------------------------------------------------- Router

ragKeywords ==
    { <<"d","o","c","u","m","e","n","t">>,
      <<"a","r","c","h","i","v","o">>,
      <<"i","n","f","o","r","m","a","c","i","ó","n"," ","e","s","p","e","c","í","f","i","c","a">>,
      <<"s","e","g","ú","n"," ","e","l"," ","d","o","c","u","m","e","n","t","o">>,
      <<"e","n"," ","l","a"," ","b","a","s","e"," ","d","e"," ","c","o","n","o","c","i","m","i","e","n","t","o","s">>,
      <<"q","u","é"," ","d","i","c","e"," ","s","o","b","r","e">>,
      <<"b","u","s","c","a","r"," ","i","n","f","o","r","m","a","c","i","ó","n">>,
      <<"c","o","n","s","u","l","t","a","r">>,
      <<"r","e","f","e","r","e","n","c","i","a","s">>,
      <<"f","u","e","n","t","e","s">>,
      <<"d","a","t","o","s"," ","a","l","m","a","c","e","n","a","d","o","s">> }

generalKeywords ==
    { <<"h","o","l","a">>,
      <<"c","ó","m","o"," ","e","s","t","á","s">>,
      <<"a","y","u","d","a"," ","g","e","n","e","r","a","l">>,
      <<"e","x","p","l","i","c","a","r"," ","c","o","n","c","e","p","t","o","s">>,
      <<"d","e","f","i","n","i","r">>,
      <<"c","ó","m","o"," ","f","u","n","c","i","o","n","a">>,
      <<"q","u","é"," ","e","s">>,
      <<"a","y","ú","d","a","m","e"," ","a"," ","e","n","t","e","n","d","e","r">> }

\* A JSON value received as "question": a string, a number or nothing.
StrVal(s) == [t |-> "string", s |-> s]
NumVal == [t |-> "number", s |-> <<>>]
Undefined == [t |-> "undefined", s |-> <<>>]

\* JavaScript truthiness of such a value (the number modelled is non-zero).
Truthy(v) == (v.t = "string" /\ Len(v.s) > 0) \/ v.t = "number"

questionLower(question) == ToLowerCase(question.s)

hasRagKeywords(question) ==
    \E keyword \in ragKeywords :
        Includes(questionLower(question), ToLowerCase(keyword))

hasGeneralKeywords(question) ==
    \E keyword \in generalKeywords :
        Includes(questionLower(question), ToLowerCase(keyword))

\* How far shouldUseRAG gets before its first await: it throws (toLowerCase
\* of a value that is no string, outside the try block), returns, or issues
\* the forced-choice completion call.
shouldUseRAGSync(question) ==
    IF question.t # "string" THEN "throw"
    ELSE IF hasRagKeywords(question) THEN "true"
    ELSE IF hasGeneralKeywords(question) THEN "false"
    ELSE "fetch"

kwRag == <<"r", "a", "g">>

\* How a completion call fails: fetch rejects, the status is no success,
\* or the body is no JSON.
FetchFailureKinds == {"networkError", "notOk", "badJson"}

ansRAG == <<"R","A","G">>
ansGENERAL == <<"G","E","N","E","R","A","L">>
ansLower == <<"N","e","c","e","s","i","t","a"," ","r","a","g">>
ansOther == <<"n","o"," ","l","o"," ","s","é">>

\* What the forced-choice call can come to; content is
\* choices?.[0]?.message?.content || "".
DecisionOutcomes ==
    [kind : FetchFailureKinds, content : {<<>>}]
        \cup [kind : {"ok"}, content : {ansRAG, ansGENERAL, ansLower, ansOther, <<>>}]

\* What shouldUseRAG returns once the forced-choice call has come to `out`.
shouldUseRAGDecide(question, out) ==
    IF out.kind = "ok"
    THEN Includes(ToLowerCase(out.content), kwRag)
    ELSE Len(questionLower(question)) > HeuristicLen

\* ----------------------------------------------------------- RAG Pipeline

Digits == <<"0", "1", "2", "3", "4", "5", "6", "7", "8", "9">>

\* A text of n characters, all positions told apart modulo 10.
Text(n) == [i \in 1..n |-> Digits[(i % 10) + 1]]

\* metadata?.content of a match: a string, or undefined.
NoContent == [t |-> "undefined", s |-> <<>>]

\* The vectors the Vector Index may return, by descending score; scores in
\* hundredths.  The contents sit on both sides of the 200-character preview
\* and the scores on both sides of the 0.7 threshold.
Pool ==
    << [id |-> "doc-1", score |-> 95, title |-> "t1", content |-> StrVal(Text(250))],
       [id |-> "doc-2", score |-> 80, title |-> "t2", content |-> StrVal(Text(50))],
       [id |-> "doc-3", score |-> 75, title |-> "t3", content |-> NoContent],
       [id |-> "doc-4", score |-> 71, title |-> "t4", content |-> StrVal(<<>>)],
       [id |-> "doc-5", score |-> 70, title |-> "t5", content |-> StrVal(Text(200))],
       [id |-> "doc-6", score |-> 70, title |-> "t6", content |-> StrVal(Text(201))],
       [id |-> "doc-7", score |-> 40, title |-> "t7", content |-> StrVal(Text(50))],
       [id |-> "doc-8", score |-> 10, title |-> "t8", content |-> StrVal(Ellipsis)] >>

\* The ranked results a query with this topK can return when the index
\* holds the vectors `stored` of the pool: at most topK of them, in rank
\* order.
QueryResults(stored, topK) ==
    LET picks == { S \in SUBSET stored : Cardinality(S) <= topK }
        Ranked(S) ==
            LET F[i \in 0..Len(Pool)] ==
                    IF i = 0 THEN <<>>
                    ELSE IF i \in S THEN Append(F[i - 1], Pool[i])
                    ELSE F[i - 1]
            IN  F[Len(Pool)]
    IN  { Ranked(S) : S \in picks }

\* An index that holds every vector of the pool, and one that holds two:
\* one above the threshold and one below.
FullIndex == 1..Len(Pool)
SmallIndex == {2, 7}

\* AboveThreshold with >= for >.
AtOrAboveThreshold(match) == match.score >= ScoreThreshold

\* .filter(match => match.score > 0.7).
AboveThreshold(match) == match.score > ScoreThreshold

ContentTruthy(content) == Truthy(content)

ContextSeparator == <<"\n", "\n">>

\* processWithRAG, step 3: the context blob (filter is SelectSeq).
Context(matches) ==
    LET above == SelectSeq(matches, AboveThreshold)
        contents == [i \in 1..Len(above) |-> above[i].content]
        kept == SelectSeq(contents, ContentTruthy)
    IN  Join([i \in 1..Len(kept) |-> kept[i].s], ContextSeparator)

\* CallsCompletion without the test of the context.
CallsCompletionAlways(context) == TRUE

\* if (context.length > 0): whether the completion call is made.
CallsCompletion(context) == Len(context) > 0

\* The content preview of one entry of sources.
Preview(content) ==
    IF content.t = "string"
    THEN StrVal(Substring0(content.s, PreviewLen) \o Ellipsis)
    ELSE NoContent

\* The sources list of processWithRAG's result.
Sources(matches) ==
    [i \in 1..Len(matches) |->
        [id |-> matches[i].id, score |-> matches[i].score,
         title |-> matches[i].title, content |-> Preview(matches[i].content)]]

NoInfoAnswer == "No pude encontrar información relevante en la base de conocimientos."
NoAnswer == "No pude generar una respuesta."

\* chatResponse.choices?.[0]?.message?.content || "No pude generar una respuesta."
AnswerOf(content) == IF content = "" THEN NoAnswer ELSE content

NoResult == [kind |-> "none"]

\* The value processWithRAG returns.
RAGResult(question, answer, matches) ==
    [kind |-> "result", question |-> question, answer |-> answer,
     usedRAG |-> TRUE, sources |-> Sources(matches),
     context_used |-> Len(Context(matches)) > 0]

\* The value processGeneral returns.
GeneralResult(question, answer) ==
    [kind |-> "result", question |-> question, answer |-> answer,
     usedRAG |-> FALSE, sources |-> <<>>, context_used |-> FALSE]

\* --------------------------------------------------------- History Recorder

\* SaveTrim with slice(0, 100) for slice(-100): the oldest kept.
SaveTrimKeepsOldest(h) ==
    IF Len(h) > HistoryCap THEN SubSeq(h, 1, HistoryCap) ELSE h

\* history.push(record), then history.slice(-100) when longer than 100.
SaveTrim(h) ==
    IF Len(h) > HistoryCap THEN SubSeq(h, Len(h) - HistoryCap + 1, Len(h)) ELSE h

\* SavePush applied to the list stored at the time of the write instead of the
\* list the handler read: an atomic append.
SavePushOnStored(h, record) == SaveTrim(Append(history, record))

\* history.push({question, answer, usedRAG, timestamp}) on the list read, then
\* the trim.
SavePush(h, record) == SaveTrim(Append(h, record))

\* Math.round(x / y * 100) for 0 <= x <= y, y > 0.
RoundPercent(x, y) == (200 * x + y) \div (2 * y)

\* The body of /stats.
Stats(h) ==
    LET ragUsage == Len(SelectSeq(h, LAMBDA item : item.usedRAG))
        generalUsage == Len(SelectSeq(h, LAMBDA item : ~item.usedRAG))
    IN  [totalInteractions |-> Len(h), ragUsage |-> ragUsage,
         generalUsage |-> generalUsage,
         ragPercentage |-> IF Len(h) > 0 THEN RoundPercent(ragUsage, Len(h)) ELSE 0]

\* --------------------------------------------------------------- Front Door

pFavicon == <<"/","f","a","v","i","c","o","n">>
pFaviconIco == <<"/","f","a","v","i","c","o","n",".","i","c","o">>
pChat == <<"/","c","h","a","t">>
pInsert == <<"/","i","n","s","e","r","t">>
pSearch == <<"/","s","e","a","r","c","h">>
pAgentStatus == <<"/","a","g","e","n","t","/","s","t","a","t","u","s">>
pAgentHistory == <<"/","a","g","e","n","t","/","h","i","s","t","o","r","y">>
pAgentStats == <<"/","a","g","e","n","t","/","s","t","a","t","s">>
pAgentTest == <<"/","a","g","e","n","t","/","t","e","s","t">>
pHealth == <<"/","h","e","a","l","t","h">>
pRoot == <<"/">>

\* The parsed JSON body of a request; jsonOk is whether request.json()
\* resolves, documents is the length of the documents array (-1: missing
\* or not an array).
NoBody ==
    [jsonOk |-> FALSE, question |-> Undefined, forceRAG |-> FALSE,
     topK |-> DefaultTopK, documents |-> -1, query |-> Undefined]

NoReq == [path |-> <<>>, method |-> "NONE", body |-> NoBody]

\* The order of the tests in the Worker's fetch: the first that matches wins.
Route(q) ==
    IF StartsWith(q.path, pFavicon) THEN "favicon"
    ELSE IF q.method = "OPTIONS" THEN "options"
    ELSE IF q.path = pChat /\ q.method = "POST" THEN "chat"
    ELSE IF q.path = pInsert /\ q.method = "POST" THEN "insert"
    ELSE IF q.path = pSearch /\ q.method = "POST" THEN "search"
    ELSE IF q.path = pAgentStatus THEN "status"
    ELSE IF q.path = pAgentHistory THEN "history"
    ELSE IF q.path = pAgentStats THEN "stats"
    ELSE IF q.path = pAgentTest /\ q.method = "POST" THEN "test"
    ELSE IF q.path = pHealth THEN "health"
    ELSE "default"

NoResp == [status |-> 0, cors |-> FALSE, kind |-> "none", data |-> [tag |-> "none"]]

\* Response.json(data, { status, headers: corsHeaders }).
JsonResponse(status, data) ==
    [status |-> status, cors |-> TRUE, kind |-> "json", data |-> data]

\* new Response("", { status: 404 }).
FaviconResponse == [status |-> 404, cors |-> FALSE, kind |-> "text", data |-> [tag |-> "empty"]]

\* new Response(null, { headers: corsHeaders }).
OptionsResponse == [status |-> 200, cors |-> TRUE, kind |-> "null", data |-> [tag |-> "null"]]

ErrorData(error) == [tag |-> "error", error |-> error]

\* CatchResponse as a plain new Response(message, { status: 500 }).
CatchResponsePlain(route) ==
    [status |-> 500, cors |-> FALSE, kind |-> "text", data |-> ErrorData("error")]

\* The response of the catch block of a route's try.
CatchResponse(route) ==
    JsonResponse(500, ErrorData(
        CASE route = "chat" -> "Failed to process chat request"
          [] route = "insert" -> "Failed to insert documents"
          [] route = "search" -> "Search failed"
          [] route = "history" -> "Failed to get agent history"
          [] route = "stats" -> "Failed to get agent stats"
          [] route = "test" -> "Failed to test agent decision"
          [] OTHER -> "uncaught"))

\* CallsClassify with shouldUseRAG awaited before forceRAG is looked at.
CallsClassifyAlways(forceRAG) == TRUE

\* const shouldUseRAG = forceRAG || await agent.shouldUseRAG(question):
\* whether the right-hand side is evaluated.
CallsClassify(forceRAG) == ~forceRAG

\* ChoosePipeline with the branches swapped.
ChoosePipelineSwapped(shouldUseRAG) == IF shouldUseRAG THEN "GENERAL" ELSE "RAG"

\* if (shouldUseRAG) processWithRAG else processGeneral.
ChoosePipeline(shouldUseRAG) == IF shouldUseRAG THEN "RAG" ELSE "GENERAL"

\* agentDecision: shouldUseRAG ? "RAG" : "GENERAL".
AgentDecision(shouldUseRAG) == IF shouldUseRAG THEN "RAG" ELSE "GENERAL"

\* The record /chat sends to the Durable Object's /save.
SaveBody(result, timestamp) ==
    [question |-> result.question, answer |-> result.answer,
     usedRAG |-> result.usedRAG, timestamp |-> timestamp]

\* The body of the 200 response of /chat.
ChatData(result, shouldUseRAG, timestamp) ==
    [tag |-> "chat", result |-> result,
     agentDecision |-> AgentDecision(shouldUseRAG), timestamp |-> timestamp]

\* ChatResponse with the Response of /save checked: a save that threw or
\* failed fails the request.
ChatResponseChecksSave(result, shouldUseRAG, timestamp, saveStatus) ==
    IF saveStatus = 200
    THEN JsonResponse(200, ChatData(result, shouldUseRAG, timestamp))
    ELSE CatchResponse("chat")

\* The response of /chat once the try around the save is left; saveStatus is
\* the status of the Response of /save, 0 when the call threw.  The code does
\* not look at that Response.
ChatResponse(result, shouldUseRAG, timestamp, saveStatus) ==
    JsonResponse(200, ChatData(result, shouldUseRAG, timestamp))

\* ----------------------------------------------------------------- inputs

qHola == <<"H","o","l","a">>
qDocument == <<"R","e","s","u","m","e"," ","e","l"," ","D","O","C","U","M","E","N","T","O">>
qBoth == <<"h","o","l","a",","," ","c","o","n","s","u","l","t","a","r"," ","f","u","e","n","t","e","s">>

\* Questions: with a general keyword, with a RAG keyword, with both; with
\* neither, of 20 and of 21 characters; no string; and falsy ones.
Questions ==
    { StrVal(qHola), StrVal(qDocument), StrVal(qBoth),
      StrVal(Text(HeuristicLen)), StrVal(Text(HeuristicLen + 1)),
      NumVal, StrVal(<<>>), Undefined }

ChatBody(question, forceRAG, topK) ==
    [jsonOk |-> TRUE, question |-> question, forceRAG |-> forceRAG,
     topK |-> topK, documents |-> -1, query |-> Undefined]

Request(path, method, body) == [path |-> path, method |-> method, body |-> body]

ChatRequest(question, forceRAG, topK) ==
    Request(pChat, "POST", ChatBody(question, forceRAG, topK))

TestRequests ==
    { Request(pAgentTest, "POST", ChatBody(q, FALSE, DefaultTopK)) : q \in Questions }

InsertRequests ==
    { Request(pInsert, "POST", [NoBody EXCEPT !.jsonOk = TRUE, !.documents = n]) :
        n \in -1..MaxDocs }

SearchRequests ==
    { Request(pSearch, "POST", [NoBody EXCEPT !.jsonOk = TRUE, !.query = q, !.topK = 1]) :
        q \in {StrVal(qHola), Undefined} }

Paths == {pFaviconIco, pChat, pInsert, pSearch, pAgentStatus, pAgentHistory,
          pAgentStats, pAgentTest, pHealth, pRoot}

\* Requests without a JSON body: GET to every path, POST to the routes
\* that read a body, and OPTIONS.
PlainRequests ==
    { Request(p, "GET", NoBody) : p \in Paths }
        \cup { Request(p, "POST", NoBody) : p \in {pChat, pInsert, pSearch, pAgentTest} }
        \cup { Request(p, "OPTIONS", NoBody) : p \in {pFaviconIco, pChat, pRoot} }

\* The /chat requests of Spec: a question with a general keyword, classified
\* and forced; one with no keyword; one that is no string; an empty one.
ChatRequests ==
    { ChatRequest(StrVal(qHola), FALSE, 1),
      ChatRequest(StrVal(qHola), TRUE, 1),
      ChatRequest(StrVal(Text(HeuristicLen + 1)), FALSE, 1),
      ChatRequest(NumVal, FALSE, 1),
      ChatRequest(StrVal(<<>>), FALSE, 1) }

Requests ==
    ChatRequests \cup TestRequests \cup InsertRequests \cup SearchRequests
        \cup PlainRequests

\* What a completion call for an answer can come to; content is
\* choices?.[0]?.message?.content.
CompletionOutcomes ==
    [kind : FetchFailureKinds, content : {""}]
        \cup [kind : {"ok"}, content : {"", "respuesta"}]

\* ------------------------------------------------------------------ state

NoLocal == [shouldUseRAG |-> FALSE, matches |-> <<>>, context |-> <<>>,
            result |-> NoResult]

\* What the execution context has done so far: calls of shouldUseRAG,
\* forced-choice calls issued, whether one failed, what shouldUseRAG came to
\* ("none", "RAG", "GENERAL", "throw"), completion calls issued by
\* processWithRAG and by processGeneral, and the pipeline called.
NoTrace == [classify |-> 0, decision |-> 0, decisionFailed |-> FALSE,
            decided |-> "none", ragLLM |-> 0, generalLLM |-> 0,
            pipeline |-> "none"]

NoRecord == [question |-> Undefined, answer |-> "", usedRAG |-> FALSE, timestamp |-> 0]

\* /save's locals: the record received, the list as storage.get returned
\* it, the list as last assigned to `history`, and the Response.
NoSave == [record |-> NoRecord, read |-> <<>>, history |-> <<>>, status |-> 0,
           historyLength |-> 0]

\* The stored list after n saves, one after the other, from an empty store.
Prefill(n) ==
    [i \in 1..n |->
        [question |-> StrVal(qHola), answer |-> "respuesta",
         usedRAG |-> (i % 2 = 0), timestamp |-> i]]

\* The Durable Object's storage outlives its instances: a new instance finds
\* what earlier saves left.
InitLens == {0, HistoryCap - 1}

Init ==
    /\ req = [r \in Slots |-> NoReq]
    /\ pc = [r \in Slots |-> "idle"]
    /\ local = [r \in Slots |-> NoLocal]
    /\ resp = [r \in Slots |-> NoResp]
    /\ trace = [r \in Slots |-> NoTrace]
    /\ savePc = [r \in Slots |-> "idle"]
    /\ saveLocal = [r \in Slots |-> NoSave]
    /\ \E n \in InitLens : history = Prefill(n) /\ now = n + 1
    /\ vectorCount = 0

\* The four variables of the Worker's execution context r.
Set(r, p, l, rs, t) ==
    /\ pc' = [pc EXCEPT ![r] = p]
    /\ local' = [local EXCEPT ![r] = l]
    /\ resp' = [resp EXCEPT ![r] = rs]
    /\ trace' = [trace EXCEPT ![r] = t]

\* return response.
Return(r, response) == Set(r, "done", local[r], response, trace[r])

\* An exception reaches the catch block of the route's try.
Throw(r, t) == Set(r, "done", local[r], CatchResponse(Route(req[r])), t)

\* processWithRAG or processGeneral is called: its first await is pending.
CallPipeline(r, shouldUseRAG, t) ==
    LET pipeline == ChoosePipeline(shouldUseRAG) IN
    Set(r, IF pipeline = "RAG" THEN "embed" ELSE "generalLLM",
        [local[r] EXCEPT !.shouldUseRAG = shouldUseRAG], resp[r],
        [t EXCEPT !.pipeline = pipeline,
                  !.generalLLM = IF pipeline = "RAG" THEN @ ELSE @ + 1])

\* shouldUseRAG returns d to the route that called it.
ClassifyReturn(r, d, t) ==
    LET t2 == [t EXCEPT !.decided = AgentDecision(d)] IN
    IF Route(req[r]) = "chat"
    THEN CallPipeline(r, req[r].body.forceRAG \/ d, t2)
    ELSE Set(r, "done", local[r],
             JsonResponse(200, [tag |-> "test", question |-> req[r].body.question,
                                decision |-> AgentDecision(d)]), t2)

\* ---------------------------------------------------------------- actions

\* A request reaches the Worker: fetch starts in a free execution context.
\* The contexts are alike, so "w1" is taken first.
Arrive(r, requests) ==
    /\ pc[r] = "idle"
    /\ r = "w1" \/ pc["w1"] # "idle"
    /\ \E q \in requests : req' = [req EXCEPT ![r] = q]
    /\ pc' = [pc EXCEPT ![r] = "dispatch"]
    /\ UNCHANGED << local, resp, trace, savePc, saveLocal, history, now, vectorCount >>

\* if (path.startsWith("/favicon")) return new Response("", { status: 404 }).
Favicon(r) ==
    /\ pc[r] = "dispatch" /\ Route(req[r]) = "favicon"
    /\ Return(r, FaviconResponse)
    /\ UNCHANGED << req, savePc, saveLocal, history, now, vectorCount >>

\* if (request.method === 'OPTIONS') return new Response(null, ...).
Options(r) ==
    /\ pc[r] = "dispatch" /\ Route(req[r]) = "options"
    /\ Return(r, OptionsResponse)
    /\ UNCHANGED << req, savePc, saveLocal, history, now, vectorCount >>

\* /chat: the body is parsed and the question validated; with forceRAG the
\* pipeline is called at once, else shouldUseRAG is.
ChatParse(r) ==
    /\ pc[r] = "dispatch" /\ Route(req[r]) = "chat"
    /\ LET body == req[r].body IN
       IF ~body.jsonOk THEN Throw(r, trace[r])
       ELSE IF ~Truthy(body.question)
       THEN Return(r, JsonResponse(400, ErrorData("Question is required")))
       ELSE IF CallsClassify(body.forceRAG)
       THEN Set(r, "classify", local[r], resp[r], trace[r])
       ELSE CallPipeline(r, body.forceRAG, trace[r])
    /\ UNCHANGED << req, savePc, saveLocal, history, now, vectorCount >>

\* /agent/test: the body is parsed, the question validated, shouldUseRAG called.
AgentTestParse(r) ==
    /\ pc[r] = "dispatch" /\ Route(req[r]) = "test"
    /\ LET body == req[r].body IN
       IF ~body.jsonOk THEN Throw(r, trace[r])
       ELSE IF ~Truthy(body.question)
       THEN Return(r, JsonResponse(400, ErrorData("Question is required")))
       ELSE Set(r, "classify", local[r], resp[r], trace[r])
    /\ UNCHANGED << req, savePc, saveLocal, history, now, vectorCount >>

\* shouldUseRAG up to its first await: the keyword tests, then the
\* forced-choice completion call is issued.
Classify(r) ==
    /\ pc[r] = "classify"
    /\ LET sync == shouldUseRAGSync(req[r].body.question)
           t == [trace[r] EXCEPT !.classify = @ + 1]
       IN  CASE sync = "throw" -> Throw(r, [t EXCEPT !.decided = "throw"])
             [] sync = "true" -> ClassifyReturn(r, TRUE, t)
             [] sync = "false" -> ClassifyReturn(r, FALSE, t)
             [] OTHER -> Set(r, "decision", local[r], resp[r],
                             [t EXCEPT !.decision = @ + 1])
    /\ UNCHANGED << req, savePc, saveLocal, history, now, vectorCount >>

\* The forced-choice completion call settles; shouldUseRAG returns.
ClassifyDecision(r) ==
    /\ pc[r] = "decision"
    /\ \E out \in DecisionOutcomes :
           ClassifyReturn(r, shouldUseRAGDecide(req[r].body.question, out),
                          [trace[r] EXCEPT !.decisionFailed = (out.kind # "ok")])
    /\ UNCHANGED << req, savePc, saveLocal, history, now, vectorCount >>

\* processWithRAG, step 1: env.AI.run settles.
RagEmbed(r) ==
    /\ pc[r] = "embed"
    /\ \E out \in {"throw", "nodata", "ok"} :
           IF out = "ok" THEN Set(r, "query", local[r], resp[r], trace[r])
           ELSE Throw(r, trace[r])
    /\ UNCHANGED << req, savePc, saveLocal, history, now, vectorCount >>

\* processWithRAG, steps 2 and 3: env.VECTORIZE.query settles, the context
\* is built; with a context the completion call is issued, without one the
\* result is returned.
RagQuery(r, stored) ==
    /\ pc[r] = "query"
    /\ \E ok \in BOOLEAN :
       \E matches \in (IF ok THEN QueryResults(stored, req[r].body.topK) ELSE {<<>>}) :
           IF ~ok THEN Throw(r, trace[r])
           ELSE IF CallsCompletion(Context(matches))
           THEN Set(r, "ragLLM",
                    [local[r] EXCEPT !.matches = matches, !.context = Context(matches)],
                    resp[r], [trace[r] EXCEPT !.ragLLM = @ + 1])
           ELSE Set(r, "save",
                    [local[r] EXCEPT
                        !.matches = matches,
                        !.context = Context(matches),
                        !.result = RAGResult(req[r].body.question, NoInfoAnswer, matches)],
                    resp[r], trace[r])
    /\ UNCHANGED << req, savePc, saveLocal, history, now, vectorCount >>

\* processWithRAG, step 4: the completion call settles.
RagComplete(r) ==
    /\ pc[r] = "ragLLM"
    /\ \E out \in CompletionOutcomes :
           IF out.kind = "ok"
           THEN Set(r, "save",
                    [local[r] EXCEPT
                        !.result = RAGResult(req[r].body.question,
                                             AnswerOf(out.content), local[r].matches)],
                    resp[r], trace[r])
           ELSE Throw(r, trace[r])
    /\ UNCHANGED << req, savePc, saveLocal, history, now, vectorCount >>

\* processGeneral: the completion call settles.
GeneralComplete(r) ==
    /\ pc[r] = "generalLLM"
    /\ \E out \in CompletionOutcomes :
           IF out.kind = "ok"
           THEN Set(r, "save",
                    [local[r] EXCEPT
                        !.result = GeneralResult(req[r].body.question,
                                                 AnswerOf(out.content))],
                    resp[r], trace[r])
           ELSE Throw(r, trace[r])
    /\ UNCHANGED << req, savePc, saveLocal, history, now, vectorCount >>

\* /chat calls agentStub.fetch("https://agent.internal/save") and awaits it;
\* the call reaches the Durable Object, or throws and is caught.
SaveCall(r) ==
    /\ pc[r] = "save"
    /\ \E sent \in BOOLEAN :
           /\ pc' = [pc EXCEPT ![r] = IF sent THEN "awaitSave" ELSE "respond"]
           /\ savePc' = [savePc EXCEPT ![r] = IF sent THEN "received" ELSE @]
           /\ saveLocal' = [saveLocal EXCEPT ![r] =
                  IF sent THEN [NoSave EXCEPT !.record = SaveBody(local[r].result, now)]
                  ELSE @]
    /\ now' = now + 1
    /\ UNCHANGED << req, local, resp, trace, history, vectorCount >>

\* MyAgent /save: the body is parsed and storage.get("chat_history") settles.
DoSaveRead(r) ==
    /\ savePc[r] = "received"
    /\ \E ok \in BOOLEAN :
           IF ok
           THEN /\ savePc' = [savePc EXCEPT ![r] = "read"]
                /\ saveLocal' = [saveLocal EXCEPT ![r].read = history,
                                                  ![r].history = history]
           ELSE /\ savePc' = [savePc EXCEPT ![r] = "responded"]
                /\ saveLocal' = [saveLocal EXCEPT ![r].status = 500]
    /\ UNCHANGED << req, pc, local, resp, trace, history, now, vectorCount >>

\* MyAgent /save: push, trim, storage.put settles, the response is returned.
DoSaveWrite(r) ==
    /\ savePc[r] = "read"
    /\ LET h == SavePush(saveLocal[r].history, saveLocal[r].record) IN
       \E ok \in BOOLEAN :
           IF ok
           THEN /\ history' = h
                /\ saveLocal' = [saveLocal EXCEPT ![r].history = h,
                                                  ![r].status = 200,
                                                  ![r].historyLength = Len(h)]
           ELSE /\ history' = history
                /\ saveLocal' = [saveLocal EXCEPT ![r].history = h, ![r].status = 500]
    /\ savePc' = [savePc EXCEPT ![r] = "responded"]
    /\ UNCHANGED << req, pc, local, resp, trace, now, vectorCount >>

\* /chat, after the try around the save: the 200 response is returned.
ChatRespond(r) ==
    /\ pc[r] = "respond" \/ (pc[r] = "awaitSave" /\ savePc[r] = "responded")
    /\ Return(r, ChatResponse(local[r].result, local[r].shouldUseRAG, now,
                              IF pc[r] = "respond" THEN 0 ELSE saveLocal[r].status))
    /\ UNCHANGED << req, savePc, saveLocal, history, now, vectorCount >>

\* /insert.
Insert(r) ==
    /\ pc[r] = "dispatch" /\ Route(req[r]) = "insert"
    /\ LET body == req[r].body IN
       \E out \in {"throw", "nodata", "ok"} :
           IF ~body.jsonOk
           THEN Throw(r, trace[r]) /\ vectorCount' = vectorCount
           ELSE IF body.documents < 0
           THEN /\ Return(r, JsonResponse(400, ErrorData("Documents array is required")))
                /\ vectorCount' = vectorCount
           ELSE IF out = "throw"
           THEN Throw(r, trace[r]) /\ vectorCount' = vectorCount
           ELSE IF out = "nodata"
           THEN /\ Return(r, JsonResponse(500, ErrorData("No embedding data received")))
                /\ vectorCount' = vectorCount
           ELSE /\ Return(r, JsonResponse(200, [tag |-> "insert",
                                               inserted |-> body.documents]))
                /\ vectorCount' = vectorCount + body.documents
    /\ UNCHANGED << req, savePc, saveLocal, history, now >>

\* /search.
Search(r, stored) ==
    /\ pc[r] = "dispatch" /\ Route(req[r]) = "search"
    /\ LET body == req[r].body IN
       \E out \in {"throw", "nodata", "ok"} :
       \E matches \in (IF out = "ok" THEN QueryResults(stored, body.topK) ELSE {<<>>}) :
           IF ~body.jsonOk THEN Throw(r, trace[r])
           ELSE IF ~Truthy(body.query)
           THEN Return(r, JsonResponse(400, ErrorData("Query is required")))
           ELSE IF out = "throw" THEN Throw(r, trace[r])
           ELSE IF out = "nodata"
           THEN Return(r, JsonResponse(500, ErrorData("No query vector data received")))
           ELSE Return(r, JsonResponse(200, [tag |-> "search", matches |-> matches]))
    /\ UNCHANGED << req, savePc, saveLocal, history, now, vectorCount >>

\* /agent/status.
AgentStatus(r) ==
    /\ pc[r] = "dispatch" /\ Route(req[r]) = "status"
    /\ Return(r, JsonResponse(200, [tag |-> "status"]))
    /\ UNCHANGED << req, savePc, saveLocal, history, now, vectorCount >>

\* /agent/history: MyAgent /history answers with the stored list or with its
\* own 500; the Worker passes the body on with status 200.  The call itself
\* may throw.
AgentHistory(r) ==
    /\ pc[r] = "dispatch" /\ Route(req[r]) = "history"
    /\ \E out \in {"throw", "storageError", "ok"} :
           IF out = "throw" THEN Throw(r, trace[r])
           ELSE IF out = "storageError"
           THEN Return(r, JsonResponse(200, ErrorData("Failed to retrieve history")))
           ELSE Return(r, JsonResponse(200, [tag |-> "history", history |-> history]))
    /\ UNCHANGED << req, savePc, saveLocal, history, now, vectorCount >>

\* /agent/stats: as /agent/history, for MyAgent /stats.
AgentStats(r) ==
    /\ pc[r] = "dispatch" /\ Route(req[r]) = "stats"
    /\ \E out \in {"throw", "storageError", "ok"} :
           IF out = "throw" THEN Throw(r, trace[r])
           ELSE IF out = "storageError"
           THEN Return(r, JsonResponse(200, ErrorData("Failed to get stats")))
           ELSE Return(r, JsonResponse(200, [tag |-> "stats", stats |-> Stats(history)]))
    /\ UNCHANGED << req, savePc, saveLocal, history, now, vectorCount >>

\* /health.
Health(r) ==
    /\ pc[r] = "dispatch" /\ Route(req[r]) = "health"
    /\ Return(r, JsonResponse(200, [tag |-> "health"]))
    /\ UNCHANGED << req, savePc, saveLocal, history, now, vectorCount >>

\* Any other path: the list of endpoints.
Default(r) ==
    /\ pc[r] = "dispatch" /\ Route(req[r]) = "default"
    /\ Return(r, JsonResponse(200, [tag |-> "endpoints"]))
    /\ UNCHANGED << req, savePc, saveLocal, history, now, vectorCount >>

Next ==
    \E r \in Slots :
        \/ Arrive(r, Requests)
        \/ Favicon(r)
        \/ Options(r)
        \/ ChatParse(r)
        \/ AgentTestParse(r)
        \/ Classify(r)
        \/ ClassifyDecision(r)
        \/ RagEmbed(r)
        \/ RagQuery(r, SmallIndex)
        \/ RagComplete(r)
        \/ GeneralComplete(r)
        \/ SaveCall(r)
        \/ DoSaveRead(r)
        \/ DoSaveWrite(r)
        \/ ChatRespond(r)
        \/ Insert(r)
        \/ Search(r, SmallIndex)
        \/ AgentStatus(r)
        \/ AgentHistory(r)
        \/ AgentStats(r)
        \/ Health(r)
        \/ Default(r)

Spec == Init /\ [][Next]_vars

\* The RAG pipeline on its own: one execution context, /chat requests that
\* reach processWithRAG (by a RAG keyword, or forced), every topK up to
\* MaxTopK, and an index that holds the whole pool.
RAGRequests ==
    { ChatRequest(q.question, q.forceRAG, k) :
        q \in { [question |-> StrVal(qDocument), forceRAG |-> FALSE],
                [question |-> StrVal(qHola), forceRAG |-> TRUE] },
        k \in 1..MaxTopK }

NextRAG ==
    \E r \in {"w1"} :
        \/ Arrive(r, RAGRequests)
        \/ ChatParse(r)
        \/ Classify(r)
        \/ RagEmbed(r)
        \/ RagQuery(r, FullIndex)
        \/ RagComplete(r)
        \/ SaveCall(r)
        \/ DoSaveRead(r)
        \/ DoSaveWrite(r)
        \/ ChatRespond(r)

SpecRAG == Init /\ [][NextRAG]_vars

\* ----------------------------------------------------------------- claims

\* A /chat request whose pipeline returned a result.
PipelineSucceeded(r) == Route(req[r]) = "chat" /\ local[r].result.kind = "result"

\* /save of context r has returned its 200 response.
SaveCompleted(r) == savePc[r] = "responded" /\ saveLocal[r].status = 200

\* C1: the stored list never holds more than 100 records, and a save that
\* completes on a list of 100 records writes that list without its first
\* record, followed by the new record.
C1_HistoryCap ==
    /\ Len(history) <= HistoryCap
    /\ \A r \in Slots :
           SaveCompleted(r) =>
               /\ Len(saveLocal[r].history) <= HistoryCap
               /\ Len(saveLocal[r].read) = HistoryCap =>
                      saveLocal[r].history =
                          Tail(saveLocal[r].read) \o << saveLocal[r].record >>

\* A save has completed on a list of 100 records, and what it wrote is stored.
C1_Witness ==
    \E r \in Slots :
        /\ SaveCompleted(r)
        /\ Len(saveLocal[r].read) = HistoryCap
        /\ history = saveLocal[r].history

\* C2: a /chat request whose pipeline succeeded is answered with status 200
\* and the pipeline's result, whatever became of the save.
C2_SaveNeverFailsChat ==
    \A r \in Slots :
        (PipelineSucceeded(r) /\ pc[r] = "done") =>
            /\ resp[r].status = 200
            /\ resp[r].cors
            /\ resp[r].kind = "json"
            /\ resp[r].data.tag = "chat"
            /\ resp[r].data.result = local[r].result
            /\ resp[r].data.agentDecision = AgentDecision(local[r].shouldUseRAG)

\* Two /chat requests are answered with 200: the save of one threw, the save
\* of the other returned a 500 response.
C2_Witness ==
    \E r1, r2 \in Slots :
        /\ r1 # r2
        /\ PipelineSucceeded(r1) /\ pc[r1] = "done" /\ resp[r1].status = 200
        /\ savePc[r1] = "idle"
        /\ PipelineSucceeded(r2) /\ pc[r2] = "done" /\ resp[r2].status = 200
        /\ savePc[r2] = "responded" /\ saveLocal[r2].status = 500

\* C3: once the pipeline has produced its result and the save call is made,
\* /chat can return its response, whether or not the save has completed.
C3_ResponseNeverWaits ==
    \A r \in Slots : pc[r] = "awaitSave" => ENABLED ChatRespond(r)

\* C4: the record /chat sends to /save has usedRAG true iff processWithRAG
\* was the pipeline called, and agentDecision of the response is "RAG" iff
\* that usedRAG is true.
C4_UsedRAGMatchesPipeline ==
    \A r \in Slots :
        savePc[r] # "idle" =>
            /\ saveLocal[r].record.usedRAG = (trace[r].pipeline = "RAG")
            /\ trace[r].pipeline \in {"RAG", "GENERAL"}
            /\ (pc[r] = "done" /\ resp[r].status = 200) =>
                   ((resp[r].data.agentDecision = "RAG") = saveLocal[r].record.usedRAG)

\* Both pipelines have run, one by classification and one forced, and each
\* request has sent its record and got its 200 response.
C4_Witness ==
    \E r1, r2 \in Slots :
        /\ pc[r1] = "done" /\ resp[r1].status = 200 /\ savePc[r1] # "idle"
        /\ saveLocal[r1].record.usedRAG /\ req[r1].body.forceRAG
        /\ pc[r2] = "done" /\ resp[r2].status = 200 /\ savePc[r2] # "idle"
        /\ ~saveLocal[r2].record.usedRAG /\ trace[r2].classify = 1

\* A /chat request with a body, a truthy question and forceRAG true, past
\* the parsing of its body.
Forced(r) ==
    /\ Route(req[r]) = "chat"
    /\ req[r].body.jsonOk /\ Truthy(req[r].body.question) /\ req[r].body.forceRAG
    /\ pc[r] \notin {"idle", "dispatch"}

\* C5: with forceRAG true, shouldUseRAG is not called, no forced-choice call
\* is issued, processGeneral is not called and processWithRAG is.
C5_ForceRAGBypassesClassify ==
    \A r \in Slots :
        Forced(r) =>
            /\ trace[r].classify = 0
            /\ trace[r].decision = 0
            /\ trace[r].generalLLM = 0
            /\ trace[r].pipeline = "RAG"

\* A forced request for a question that shouldUseRAG maps to GENERAL has
\* been answered by the RAG pipeline.
C5_Witness ==
    \E r \in Slots :
        /\ Forced(r)
        /\ shouldUseRAGSync(req[r].body.question) = "false"
        /\ pc[r] = "done" /\ resp[r].status = 200
        /\ resp[r].data.result.usedRAG

\* shouldUseRAG was called by context r and is no longer running.
ClassifyEnded(r) == trace[r].classify > 0 /\ pc[r] \notin {"classify", "decision"}

\* C6: shouldUseRAG never throws: every call of it, from /chat or from
\* /agent/test, ends with a decision; and when the forced-choice call failed
\* the decision is RAG iff the lower-cased question has more than 20
\* characters.
C6_ClassifyNeverThrows ==
    \A r \in Slots :
        ClassifyEnded(r) =>
            /\ trace[r].decided \in {"RAG", "GENERAL"}
            /\ trace[r].decisionFailed =>
                   ((trace[r].decided = "RAG") =
                        (Len(questionLower(req[r].body.question)) > HeuristicLen))

\* The second half of C6 alone, which the code satisfies: after a failed
\* forced-choice call the decision follows the length of the question.
C6_LengthHeuristic ==
    \A r \in Slots :
        (ClassifyEnded(r) /\ trace[r].decisionFailed) =>
            ((trace[r].decided = "RAG") =
                 (Len(questionLower(req[r].body.question)) > HeuristicLen))

\* processWithRAG of context r has returned its result.
RagReturned(r) == local[r].result.kind = "result" /\ local[r].result.usedRAG

\* seq without its i-th element.
Without(seq, i) == SubSeq(seq, 1, i - 1) \o SubSeq(seq, i + 1, Len(seq))

\* The text of match j is in the context by right: its score is above the
\* threshold.
Contributes(match) == match.score > ScoreThreshold /\ match.content.t = "string"

\* C7: a match with score <= 0.7 adds nothing to the context blob (the blob
\* is what it would be without that match, and the match's text is in it only
\* where the text of a match above the threshold holds it), and sources has
\* one entry per match, in rank order.
C7_ThresholdAndSources ==
    \A r \in Slots :
        RagReturned(r) =>
            LET m == local[r].matches
                src == local[r].result.sources
            IN  /\ Len(src) = Len(m)
                /\ \A i \in 1..Len(m) :
                       src[i].id = m[i].id /\ src[i].score = m[i].score
                /\ \A i \in 1..Len(m) :
                       m[i].score <= ScoreThreshold =>
                           /\ local[r].context = Context(Without(m, i))
                           /\ ( /\ m[i].content.t = "string"
                                /\ Len(m[i].content.s) > 0
                                /\ \A j \in 1..Len(m) :
                                       Contributes(m[j]) =>
                                           ~Includes(m[j].content.s, m[i].content.s) )
                              => ~Includes(local[r].context, m[i].content.s)

\* A run has returned with three matches: one above the threshold whose text
\* is the context, and one with score exactly 0.7 and a text of its own.
C7_Witness ==
    \E r \in Slots :
        /\ RagReturned(r)
        /\ Len(local[r].matches) = 3
        /\ Len(local[r].context) > 0
        /\ \E i \in 1..3 :
               /\ local[r].matches[i].score = ScoreThreshold
               /\ Len(local[r].matches[i].content.s) > 0
               /\ ~Includes(local[r].context, local[r].matches[i].content.s)

\* Some match of context r has a score above the threshold and a text.
HasContext(r) ==
    \E i \in 1..Len(local[r].matches) :
        /\ local[r].matches[i].score > ScoreThreshold
        /\ local[r].matches[i].content.t = "string"
        /\ Len(local[r].matches[i].content.s) > 0

\* C8: in processWithRAG the context is empty iff no match has a score above
\* 0.7 and a non-empty content; with an empty context no completion call is
\* made, the answer is the fixed message and context_used is false; with a
\* non-empty context exactly one completion call is made.
C8_NoCompletionWithoutContext ==
    \A r \in Slots :
        trace[r].pipeline = "RAG" =>
            /\ (RagReturned(r) \/ pc[r] = "ragLLM") =>
                   ((Len(local[r].context) > 0) = HasContext(r))
            /\ Len(local[r].context) = 0 =>
                   /\ trace[r].ragLLM = 0
                   /\ RagReturned(r) =>
                          /\ local[r].result.answer = NoInfoAnswer
                          /\ ~local[r].result.context_used
            /\ Len(local[r].context) > 0 =>
                   /\ trace[r].ragLLM = 1
                   /\ RagReturned(r) => local[r].result.context_used

\* A run has returned with matches above the threshold, none with a text:
\* no completion call, the fixed answer.
C8_Witness ==
    \E r \in Slots :
        /\ RagReturned(r)
        /\ \E i \in 1..Len(local[r].matches) :
               local[r].matches[i].score > ScoreThreshold
        /\ Len(local[r].context) = 0
        /\ trace[r].ragLLM = 0
        /\ local[r].result.answer = NoInfoAnswer

\* C9 as stated: every response carries the CORS headers, and every response
\* but that of the OPTIONS short-circuit has a JSON body.
C9_AllResponsesCorsJson ==
    \A r \in Slots :
        pc[r] = "done" =>
            /\ resp[r].cors
            /\ Route(req[r]) # "options" => resp[r].kind = "json"

\* C9, amended: the same for every request whose path does not start with
\* /favicon; a request whose path does gets 404 with an empty body and no
\* CORS headers.
C9_AllButFaviconCorsJson ==
    \A r \in Slots :
        pc[r] = "done" =>
            IF StartsWith(req[r].path, pFavicon)
            THEN resp[r].status = 404 /\ ~resp[r].cors /\ resp[r].kind = "text"
            ELSE /\ resp[r].cors
                 /\ req[r].method # "OPTIONS" => resp[r].kind = "json"

\* A /chat request has been answered with 500 and a /favicon request with 404.
C9_Witness ==
    \E r1, r2 \in Slots :
        /\ pc[r1] = "done" /\ Route(req[r1]) = "chat" /\ resp[r1].status = 500
        /\ pc[r2] = "done" /\ StartsWith(req[r2].path, pFavicon)
        /\ resp[r2].status = 404

\* C10: the preview of a string content longer than 200 characters is its
\* first 200 characters and an ellipsis; the preview of a shorter one is the
\* content itself.
C10_PreviewVerbatimWhenShort ==
    \A r \in Slots :
        RagReturned(r) =>
            \A i \in 1..Len(local[r].matches) :
                LET content == local[r].matches[i].content
                    preview == local[r].result.sources[i].content
                IN  content.t = "string" =>
                        preview = IF Len(content.s) > PreviewLen
                                  THEN StrVal(SubSeq(content.s, 1, PreviewLen) \o Ellipsis)
                                  ELSE content

\* What the code does for every string content: at most its first 200
\* characters, always followed by an ellipsis.
C10_EllipsisAlways ==
    \A r \in Slots :
        RagReturned(r) =>
            \A i \in 1..Len(local[r].matches) :
                LET content == local[r].matches[i].content
                    preview == local[r].result.sources[i].content
                    n == IF Len(content.s) > PreviewLen THEN PreviewLen
                         ELSE Len(content.s)
                IN  content.t = "string" =>
                        preview = StrVal(SubSeq(content.s, 1, n) \o Ellipsis)

\* A record is an element of a history list.
RecordIn(h, record) == \E i \in 1..Len(h) : h[i] = record

\* Two saves that both read the stored list before either wrote it back: each
\* write appends a record, so a read after the other's write differs from a
\* read before it.
ReadBeforeEitherWrote(r1, r2) ==
    /\ r1 # r2
    /\ savePc[r1] = "responded"
    /\ savePc[r2] = "responded"
    /\ saveLocal[r1].history # <<>>
    /\ saveLocal[r2].history # <<>>
    /\ saveLocal[r1].read = saveLocal[r2].read

\* C11: /save is a read-modify-write of the one chat_history list in separate
\* steps. When two saves both read the stored list before either writes it
\* back and both report success, the stored list holds exactly one of the two
\* new records, the two new records differ, each save reports the length of
\* its own write, and the stored list is one record longer than the list read
\* when that list was below the cap: two successful saves, one record gained.
C11_LostUpdate ==
    \A r1, r2 \in Slots :
        (ReadBeforeEitherWrote(r1, r2) /\ SaveCompleted(r1) /\ SaveCompleted(r2)) =>
            LET read == saveLocal[r1].read IN
            /\ saveLocal[r1].record # saveLocal[r2].record
            /\ RecordIn(history, saveLocal[r1].record)
                   # RecordIn(history, saveLocal[r2].record)
            /\ history \in {saveLocal[r1].history, saveLocal[r2].history}
            /\ saveLocal[r1].historyLength = saveLocal[r2].historyLength
            /\ Len(read) < HistoryCap => Len(history) = Len(read) + 1

\* Two saves on an empty store interleaved read-read-write-write: both answered
\* success with historyLength 1, and one record is stored.
C11_Witness ==
    /\ ReadBeforeEitherWrote("w1", "w2")
    /\ SaveCompleted("w1")
    /\ SaveCompleted("w2")
    /\ saveLocal["w1"].read = <<>>
    /\ saveLocal["w1"].historyLength = 1
    /\ saveLocal["w2"].historyLength = 1
    /\ Len(history) = 1
    /\ Len(history) < HistoryCap

====
